---- MODULE Spec2Model ----
(***************************************************************************)
(* The Google travel time sensor of                                        *)
(* homeassistant/components/google_travel_time/sensor.py as a state        *)
(* machine: the entity's fields, the host's start-up, the update() cycle   *)
(* split at the blocking vendor call, and the properties the host reads.   *)
(*                                                                         *)
(* Python values whose type varies (Optional[str], int / datetime / None)  *)
(* are records tagged with their type; dicts are functions from keys;      *)
(* strings the code inspects or builds character by character are          *)
(* sequences of one-character strings.                                     *)
(***************************************************************************)
EXTENDS Integers, Sequences, FiniteSets, TLC

VARIABLES
    hass_state,             \* hass.state (CoreState)
    listeners,              \* one-shot EVENT_HOMEASSISTANT_STARTED listeners
    entity_added,           \* async_add_entities has added the sensor
    options,                \* config_entry.options
    now,                    \* the local wall clock, datetime.now()
    _matrix,                \* self._matrix
    _departure_board,       \* self._departure_board
    _last_poll,             \* self._last_poll
    _resolved_origin,       \* self._resolved_origin
    _resolved_destination,  \* self._resolved_destination
    _attr_device_class,     \* self._attr_device_class
    _unit_of_measurement,   \* self._unit_of_measurement
    first_update_pc,        \* position of the first_update() coroutine
    first_update_runs,      \* how many times first_update() was entered
    pc,                     \* position of the update() job
    caller,                 \* who dispatched the running update()
    use_departure_board,    \* update()'s local of that name
    request,                \* the vendor call in flight
    response,               \* what the vendor call returned or raised
    calls,                  \* vendor endpoints called in this cycle
    outcome,                \* how update() ended in this cycle
    clock_read,             \* the datetime.now() update() read in this cycle
    before,                 \* what the entity exposed when update() began
    ha_state,               \* the state last written to the host
    writers                 \* who has written the state to the host

vars == <<hass_state, listeners, entity_added, options, now,
          _matrix, _departure_board, _last_poll, _resolved_origin,
          _resolved_destination, _attr_device_class, _unit_of_measurement,
          first_update_pc, first_update_runs, pc, caller,
          use_departure_board, request, response, calls, outcome,
          clock_read, before, ha_state, writers>>

sensor_vars == <<_matrix, _departure_board, _last_poll, _resolved_origin,
                 _resolved_destination, _attr_device_class,
                 _unit_of_measurement>>

cycle_vars == <<caller, use_departure_board, request, response, calls,
                outcome, clock_read, before>>

host_vars == <<hass_state, listeners, entity_added>>

(***************************************************************************)
(* Values                                                                  *)
(***************************************************************************)
None == [type |-> "NoneType"]

PyStr(s) == [type |-> "str", value |-> s]

PyInt(n) == [type |-> "int", value |-> n]

PyFloat(n) == [type |-> "float", value |-> n]

SecondsPerMinute == 60

SecondsPerHour == 60 * SecondsPerMinute

SecondsPerDay == 86400

\* dt_util.DEFAULT_TIME_ZONE, a fixed offset from UTC in seconds
UtcOffset == 3600

CONF_DEPARTURE_TIME == "departure_time"

CONF_ARRIVAL_TIME == "arrival_time"

CONF_TRANSIT_DEPARTURE_BOARD == "transit_departure_board"

CONF_MODE == "mode"

ATTR_DEPARTURES == "departures"

ATTR_LAST_POLL == "last_poll"

ATTR_ATTRIBUTION == "attribution"

ATTRIBUTION == PyStr("Powered by Google")

DURATION == PyStr("duration")

TIMESTAMP == PyStr("timestamp")

TIME_MINUTES == PyStr("min")

(***************************************************************************)
(* dicts                                                                   *)
(***************************************************************************)
DictGet(d, k) == IF k \in DOMAIN d THEN d[k] ELSE None

DictSet(d, k, v) == [x \in DOMAIN d \cup {k} |-> IF x = k THEN v ELSE d[x]]

DictUpdate(d, e) ==
    [x \in DOMAIN d \cup DOMAIN e |-> IF x \in DOMAIN e THEN e[x] ELSE d[x]]

DictDel(d, k) == [x \in DOMAIN d \ {k} |-> d[x]]

(***************************************************************************)
(* Time.  A naive local datetime is [s, us]: whole seconds of local wall   *)
(* clock since the epoch, and whether microseconds are pending (0 or 1).   *)
(***************************************************************************)
Digits == <<"0", "1", "2", "3", "4", "5", "6", "7", "8", "9">>

DigitValue(c) == CHOOSE n \in 0..9 : Digits[n + 1] = c

TwoDigits(n) == <<Digits[(n \div 10) + 1], Digits[(n % 10) + 1]>>

\* "HH:MM:SS" for a time of day
TimeStr(h, m, s) == TwoDigits(h) \o <<":">> \o TwoDigits(m) \o <<":">> \o TwoDigits(s)

\* dt_util.parse_time on "HH:MM:SS": the time of day in seconds
parse_time(timestr) ==
    (DigitValue(timestr[1]) * 10 + DigitValue(timestr[2])) * SecondsPerHour
    + (DigitValue(timestr[4]) * 10 + DigitValue(timestr[5])) * SecondsPerMinute
    + (DigitValue(timestr[7]) * 10 + DigitValue(timestr[8]))

\* dt_util.start_of_local_day(): today's date
start_of_local_day(t) == t.s - (t.s % SecondsPerDay)

\* dt_util.as_timestamp of a naive local datetime
as_timestamp(local_s) == PyFloat(local_s - UtcOffset)

\* combined < datetime.now(), combined having no microseconds
NaiveBefore(combined, t) == combined < t.s \/ (combined = t.s /\ t.us > 0)

convert_time_to_utc(timestr, t) ==
    LET combined == start_of_local_day(t) + parse_time(timestr)
    IN  IF NaiveBefore(combined, t)
        THEN as_timestamp(combined + SecondsPerDay)
        ELSE as_timestamp(combined)

\* datetime.now(tz=dt_util.DEFAULT_TIME_ZONE)
AwareNow(t) ==
    [type |-> "datetime", s |-> t.s, us |-> t.us, utcoffset |-> UtcOffset]

_from_timestamp(transit_detail) ==
    [type |-> "datetime",
     s |-> transit_detail["departure_time"]["value"] + UtcOffset,
     us |-> 0, utcoffset |-> UtcOffset]

\* datetime.strftime("%H:%M")
strftime_HM(dt) ==
    LET tod == dt.s % SecondsPerDay
    IN  TwoDigits(tod \div SecondsPerHour) \o <<":">>
        \o TwoDigits((tod % SecondsPerHour) \div SecondsPerMinute)

\* Python's round(value / 60): to the nearest integer, a tie to the even one
RoundMinutes(value) ==
    LET q == value \div SecondsPerMinute
        r == value % SecondsPerMinute
    IN  IF 2 * r < SecondsPerMinute THEN q
        ELSE IF 2 * r > SecondsPerMinute THEN q + 1
        ELSE IF q % 2 = 0 THEN q ELSE q + 1

(***************************************************************************)
(* Inputs: what the configuration, the clock, the host's location          *)
(* resolution and the vendor can supply.                                   *)
(***************************************************************************)
\* the most routing alternatives a directions result holds
MaxAlternatives == 2

NowLiteral == <<"n", "o", "w">>

OptionsSet ==
    { [mode |-> "driving"],
      [mode |-> "driving", departure_time |-> PyStr(TimeStr(8, 0, 0))],
      [mode |-> "driving", transit_departure_board |-> FALSE,
       departure_time |-> PyStr(NowLiteral)],
      [mode |-> "transit", transit_departure_board |-> TRUE],
      [mode |-> "transit", transit_departure_board |-> TRUE,
       arrival_time |-> PyStr(TimeStr(23, 59, 59))] }

\* local wall-clock instants of one day: just before, exactly at and just
\* after 08:00:00
ClockInstants ==
    { [s |-> SecondsPerDay + 28799, us |-> 1],
      [s |-> SecondsPerDay + 28800, us |-> 0],
      [s |-> SecondsPerDay + 28800, us |-> 1] }

Later(a, b) == a.s > b.s \/ (a.s = b.s /\ a.us > b.us)

\* find_coordinates: a coordinate string, or None when nothing resolves
Origins == {None, PyStr("52.37,4.89")}

Destinations == {None, PyStr("51.92,4.48")}

Measure(value, text) == [value |-> value, text |-> text]

ElementTraffic ==
    [status |-> "OK", distance |-> Measure(1200, "1.2 km"),
     duration |-> Measure(30, "1 min"),
     duration_in_traffic |-> Measure(150, "3 mins")]

ElementPlain ==
    [status |-> "OK", distance |-> Measure(900, "0.9 km"),
     duration |-> Measure(50, "1 min")]

ElementTrafficOnly ==
    [status |-> "OK", duration_in_traffic |-> Measure(90, "2 mins")]

ElementZeroResults == [status |-> "ZERO_RESULTS"]

Elements ==
    {ElementTraffic, ElementPlain, ElementTrafficOnly, ElementZeroResults}

Matrix(rows) ==
    [destination_addresses |-> <<"Rotterdam">>,
     origin_addresses |-> <<"Amsterdam">>,
     rows |-> rows, status |-> "OK"]

Row(elements) == [elements |-> elements]

\* distance_matrix results: one element, and two shapes with more than one
Matrices ==
    { Matrix(<<Row(<<e>>)>>) : e \in Elements }
    \cup { Matrix(<<Row(<<ElementPlain, ElementTraffic>>)>>),
           Matrix(<<Row(<<ElementTraffic>>), Row(<<ElementPlain>>)>>) }

TransitDetailCentral ==
    [departure_time |-> [value |-> 30600, text |-> "9:30am"],
     headsign |-> "Central",
     line |-> [short_name |-> "5", color |-> "#ff0000",
               text_color |-> "#ffffff"]]

TransitDetailAirport ==
    [departure_time |-> [value |-> 34260, text |-> "10:31am"],
     headsign |-> "Airport",
     line |-> [short_name |-> "17", color |-> "#0000ff",
               text_color |-> "#000000"]]

\* a line the vendor gives no short name
TransitDetailNoShortName ==
    [departure_time |-> [value |-> 30600, text |-> "9:30am"],
     headsign |-> "Harbour",
     line |-> [color |-> "#00ff00", text_color |-> "#000000"]]

StepTransit(td) == [travel_mode |-> "TRANSIT", transit_details |-> td]

StepWalking == [travel_mode |-> "WALKING"]

Route(steps) == [legs |-> <<[steps |-> steps]>>]

Routes ==
    { Route(<<StepTransit(TransitDetailCentral),
              StepTransit(TransitDetailAirport)>>),
      Route(<<StepTransit(TransitDetailAirport)>>),
      Route(<<StepWalking, StepTransit(TransitDetailCentral)>>),
      Route(<<StepTransit(TransitDetailNoShortName)>>) }

\* directions results: up to MaxAlternatives routes, in the vendor's order
DirectionsResults ==
    UNION { [1..n -> Routes] : n \in 0..MaxAlternatives }

VendorErrors == {"ApiError", "Timeout"}

(***************************************************************************)
(* update(): the options it passes on                                      *)
(***************************************************************************)
ContainsColon(str) == \E i \in DOMAIN str : str[i] = ":"

\* lines 222-235: options_copy before the departure-board flag is popped
PrepareOptions(opts, t) ==
    LET dtime == DictGet(opts, CONF_DEPARTURE_TIME)
        atime == DictGet(opts, CONF_ARRIVAL_TIME)
        with_departure ==
            IF dtime # None /\ ContainsColon(dtime.value)
            THEN DictSet(opts, CONF_DEPARTURE_TIME,
                         convert_time_to_utc(dtime.value, t))
            ELSE IF dtime # None
            THEN DictSet(opts, CONF_DEPARTURE_TIME, dtime)
            ELSE IF atime = None
            THEN DictSet(opts, CONF_DEPARTURE_TIME, PyStr(NowLiteral))
            ELSE opts
    IN  IF atime # None /\ ContainsColon(atime.value)
        THEN DictSet(with_departure, CONF_ARRIVAL_TIME,
                     convert_time_to_utc(atime.value, t))
        ELSE IF atime # None
        THEN DictSet(with_departure, CONF_ARRIVAL_TIME, atime)
        ELSE with_departure

\* line 237: options_copy.pop(CONF_TRANSIT_DEPARTURE_BOARD, False)
PopDepartureBoardFlag(opts) ==
    IF CONF_TRANSIT_DEPARTURE_BOARD \in DOMAIN opts
    THEN opts[CONF_TRANSIT_DEPARTURE_BOARD]
    ELSE FALSE

(***************************************************************************)
(* update(): the departure board                                           *)
(***************************************************************************)
PyList(items) == [type |-> "list", items |-> items]

FirstAlternativeOnlyDetails(result) ==
    LET first_steps ==
            [i \in 1..Len(result) |-> result[1]["legs"][1]["steps"][1]]
        with_details ==
            SelectSeq(first_steps, LAMBDA s : "transit_details" \in DOMAIN s)
    IN  [i \in 1..Len(with_details) |-> with_details[i]["transit_details"]]

\* lines 257-260
TransitDetails(result) ==
    LET first_steps ==
            [i \in 1..Len(result) |-> result[i]["legs"][1]["steps"][1]]
        with_details ==
            SelectSeq(first_steps, LAMBDA s : "transit_details" \in DOMAIN s)
    IN  [i \in 1..Len(with_details) |-> with_details[i]["transit_details"]]

\* the keys lines 265-270 index: a missing one raises KeyError
RecordBuildable(td) ==
    /\ {"departure_time", "headsign", "line"} \subseteq DOMAIN td
    /\ {"short_name", "color", "text_color"} \subseteq DOMAIN td["line"]

\* lines 264-271
DepartureRecord(td) ==
    [dep_full |-> _from_timestamp(td),
     dep |-> strftime_HM(_from_timestamp(td)),
     to |-> td["headsign"],
     line |-> td["line"]["short_name"],
     bg |-> td["line"]["color"],
     fg |-> td["line"]["text_color"]]

\* lines 263-273
DepartureBoard(transit_details) ==
    PyList([i \in 1..Len(transit_details) |->
                DepartureRecord(transit_details[i])])

(***************************************************************************)
(* The properties the host reads                                           *)
(***************************************************************************)
native_value_duration_first(matrix, departure_board) ==
    LET from_board ==
            IF departure_board # None /\ Len(departure_board.items) > 0
            THEN departure_board.items[1]["dep_full"]
            ELSE None
    IN  IF matrix # None
        THEN LET _data == matrix["rows"][1]["elements"][1]
             IN  IF "duration" \in DOMAIN _data
                 THEN PyInt(RoundMinutes(_data["duration"]["value"]))
                 ELSE IF "duration_in_traffic" \in DOMAIN _data
                 THEN PyInt(RoundMinutes(_data["duration_in_traffic"]["value"]))
                 ELSE from_board
        ELSE from_board

native_value(matrix, departure_board) ==
    LET from_board ==
            IF departure_board # None /\ Len(departure_board.items) > 0
            THEN departure_board.items[1]["dep_full"]
            ELSE None
    IN  IF matrix # None
        THEN LET _data == matrix["rows"][1]["elements"][1]
             IN  IF "duration_in_traffic" \in DOMAIN _data
                 THEN PyInt(RoundMinutes(_data["duration_in_traffic"]["value"]))
                 ELSE IF "duration" \in DOMAIN _data
                 THEN PyInt(RoundMinutes(_data["duration"]["value"]))
                 ELSE from_board
        ELSE from_board

_without_in_place(dict_in, key) ==
    [ret |-> DictDel(dict_in, key), dict_in |-> DictDel(dict_in, key)]

\* the dict returned, and the argument as the call leaves it
_without(dict_in, key) ==
    [ret |-> DictDel(dict_in, key), dict_in |-> dict_in]

\* lines 182-198
MatrixAttributes(matrix, opts, origin, destination, last_poll) ==
    LET _data == matrix["rows"][1]["elements"][1]
        r0 == DictDel(DictUpdate(matrix, opts), "rows")
        r1 == IF "duration_in_traffic" \in DOMAIN _data
              THEN DictSet(r0, "duration_in_traffic",
                           _data["duration_in_traffic"]["text"])
              ELSE r0
        r2 == IF "duration" \in DOMAIN _data
              THEN DictSet(r1, "duration", _data["duration"]["text"])
              ELSE r1
        r3 == IF "distance" \in DOMAIN _data
              THEN DictSet(r2, "distance", _data["distance"]["text"])
              ELSE r2
        r4 == DictSet(r3, "origin", origin)
        r5 == DictSet(r4, "destination", destination)
        r6 == DictSet(r5, ATTR_ATTRIBUTION, ATTRIBUTION)
    IN  DictSet(r6, ATTR_LAST_POLL, last_poll)

\* lines 200-206
BoardAttributes(departure_board, last_poll) ==
    LET deps == departure_board.items
    IN  DictSet(DictSet(<<>>, ATTR_DEPARTURES,
                        PyList([i \in 1..Len(deps) |->
                                    _without(deps[i], "dep_full").ret])),
                ATTR_LAST_POLL, last_poll)

extra_state_attributes(matrix, departure_board, opts, origin, destination, last_poll) ==
    IF matrix # None
    THEN MatrixAttributes(matrix, opts, origin, destination, last_poll)
    ELSE IF departure_board # None
    THEN BoardAttributes(departure_board, last_poll)
    ELSE None

\* the stored departure board once extra_state_attributes has been read
BoardAfterAttributes(matrix, departure_board) ==
    IF matrix = None /\ departure_board # None
    THEN PyList([i \in 1..Len(departure_board.items) |->
                    _without(departure_board.items[i], "dep_full").dict_in])
    ELSE departure_board

\* what the entity exposes to the host
View ==
    [state |-> native_value(_matrix, _departure_board),
     attributes |-> extra_state_attributes(_matrix, _departure_board, options,
                        _resolved_origin, _resolved_destination, _last_poll),
     device_class |-> _attr_device_class,
     unit |-> _unit_of_measurement]

(***************************************************************************)
(* The state after construction: async_setup_entry has built the sensor    *)
(* (GoogleTravelTimeSensor.__init__) and not yet added it.                 *)
(***************************************************************************)
NoOutcome == [kind |-> "none"]

Unwritten == [type |-> "unwritten"]

Unavailable == PyStr("unavailable")

CycleIdle ==
    /\ caller = "none"
    /\ use_departure_board = FALSE
    /\ request = None
    /\ response = None
    /\ calls = <<>>
    /\ outcome = NoOutcome
    /\ clock_read = None
    /\ before = None

Init ==
    /\ hass_state = "not_running"
    /\ listeners = 0
    /\ entity_added = FALSE
    /\ options \in OptionsSet
    /\ now \in ClockInstants
    /\ _matrix = None
    /\ _departure_board = None
    /\ _last_poll = None
    /\ _resolved_origin = None
    /\ _resolved_destination = None
    /\ _attr_device_class = DURATION
    /\ _unit_of_measurement = TIME_MINUTES
    /\ first_update_pc = "none"
    /\ first_update_runs = 0
    /\ pc = "idle"
    /\ CycleIdle
    /\ ha_state = Unwritten
    /\ writers = {}

(***************************************************************************)
(* The host and the entity's life cycle                                    *)
(***************************************************************************)
\* a caller hands update() to the executor (hass.async_add_executor_job)
DispatchUpdate(who) ==
    /\ pc = "idle"
    /\ pc' = "update"
    /\ caller' = who
    /\ before' = View
    /\ UNCHANGED <<use_departure_board, request, response, calls, outcome,
                   clock_read>>

\* first_update() is entered and awaits the executor job (line 217)
FirstUpdateBegin ==
    /\ first_update_pc' = "running"
    /\ first_update_runs' = first_update_runs + 1
    /\ DispatchUpdate("first_update")

DeferInverted(state) == state = "running"

\* line 138: hass.state != CoreState.running
Defer(state) == state # "running"

\* async_setup_entry adds the sensor without an update (line 113), and the
\* host calls async_added_to_hass
async_added_to_hass ==
    /\ ~entity_added
    /\ entity_added' = TRUE
    /\ IF Defer(hass_state)
       THEN /\ listeners' = listeners + 1
            /\ first_update_pc' = "listening"
            /\ UNCHANGED <<first_update_runs, pc, cycle_vars>>
       ELSE /\ FirstUpdateBegin
            /\ UNCHANGED listeners
    /\ UNCHANGED <<hass_state, options, now, sensor_vars, ha_state, writers>>

\* the host leaves CoreState.not_running
HassStarting ==
    /\ hass_state = "not_running"
    /\ hass_state' = "starting"
    /\ UNCHANGED <<listeners, entity_added, options, now,
                   sensor_vars, first_update_pc, first_update_runs, pc,
                   cycle_vars, ha_state, writers>>

\* the host becomes CoreState.running and fires EVENT_HOMEASSISTANT_STARTED:
\* each one-shot listener is removed and called
HomeAssistantStarted ==
    /\ hass_state = "starting"
    /\ hass_state' = "running"
    /\ IF listeners > 0
       THEN /\ listeners' = 0
            /\ FirstUpdateBegin
       ELSE UNCHANGED <<listeners, first_update_pc, first_update_runs, pc,
                        cycle_vars>>
    /\ UNCHANGED <<entity_added, options, now, sensor_vars,
                   ha_state, writers>>

\* the host's fixed-interval tick (SCAN_INTERVAL), after the first update
Poll ==
    /\ entity_added
    /\ first_update_pc \in {"done", "raised"}
    /\ DispatchUpdate("poll")
    /\ UNCHANGED <<host_vars, options, now, sensor_vars, first_update_pc,
                   first_update_runs, ha_state, writers>>

\* the user changes the options between update cycles
OptionsChanged ==
    /\ pc = "idle"
    /\ options' \in OptionsSet \ {options}
    /\ UNCHANGED <<host_vars, now, sensor_vars, first_update_pc,
                   first_update_runs, pc, cycle_vars, ha_state, writers>>

\* time passes
Tick ==
    /\ \E t \in ClockInstants : Later(t, now) /\ now' = t
    /\ UNCHANGED <<host_vars, options, sensor_vars, first_update_pc,
                   first_update_runs, pc, cycle_vars, ha_state, writers>>

(***************************************************************************)
(* update(), split at the blocking vendor call                             *)
(***************************************************************************)
MatrixKept(matrix) == matrix

\* line 249
MatrixForDirections(matrix) == None

BoardKept(departure_board) == departure_board

\* line 275
BoardForMatrix(departure_board) == None

DeviceClassKept(device_class) == device_class

\* line 276
DeviceClassForMatrix(device_class) == DURATION

VendorRequest(endpoint, origin, destination, options_copy) ==
    IF endpoint = "directions"
    THEN [endpoint |-> endpoint, origin |-> origin,
          destination |-> destination, alternatives |-> TRUE,
          options |-> options_copy]
    ELSE [endpoint |-> endpoint, origin |-> origin,
          destination |-> destination, options |-> options_copy]

\* lines 222-256 and 274-283: up to the vendor call, or past the whole body
\* when an endpoint does not resolve
update_begin ==
    /\ pc = "update"
    /\ \E origin \in Origins, destination \in Destinations :
         LET prepared == PrepareOptions(options, now)
             flag == PopDepartureBoardFlag(prepared)
             options_copy == DictDel(prepared, CONF_TRANSIT_DEPARTURE_BOARD)
         IN  /\ clock_read' = now
             /\ use_departure_board' = flag
             /\ _resolved_origin' = origin
             /\ _resolved_destination' = destination
             /\ IF destination # None /\ origin # None
                THEN IF flag
                     THEN /\ _matrix' = MatrixForDirections(_matrix)
                          /\ request' = VendorRequest("directions", origin,
                                            destination, options_copy)
                          /\ calls' = Append(calls, "directions")
                          /\ pc' = "vendor"
                          /\ UNCHANGED <<_departure_board, _attr_device_class,
                                         _unit_of_measurement, outcome>>
                     ELSE /\ _departure_board' = BoardForMatrix(_departure_board)
                          /\ _attr_device_class' =
                                 DeviceClassForMatrix(_attr_device_class)
                          /\ _unit_of_measurement' = TIME_MINUTES
                          /\ request' = VendorRequest("distance_matrix", origin,
                                            destination, options_copy)
                          /\ calls' = Append(calls, "distance_matrix")
                          /\ pc' = "vendor"
                          /\ UNCHANGED <<_matrix, outcome>>
                ELSE /\ pc' = "finished"
                     /\ outcome' = [kind |-> "short_circuit"]
                     /\ UNCHANGED <<_matrix, _departure_board,
                                    _attr_device_class, _unit_of_measurement,
                                    request, calls>>
    /\ UNCHANGED <<host_vars, options, now, _last_poll, first_update_pc,
                   first_update_runs, caller, response, before, ha_state,
                   writers>>

\* googlemaps directions() / distance_matrix() returns a result or raises
vendor_responds ==
    /\ pc = "vendor"
    /\ pc' = "responded"
    /\ \/ \E result \in DirectionsResults :
            /\ request.endpoint = "directions"
            /\ response' = [ok |-> TRUE, value |-> result]
       \/ \E result \in Matrices :
            /\ request.endpoint = "distance_matrix"
            /\ response' = [ok |-> TRUE, value |-> result]
       \/ \E error \in VendorErrors :
            response' = [ok |-> FALSE, error |-> error]
    /\ UNCHANGED <<host_vars, options, now, sensor_vars, first_update_pc,
                   first_update_runs, caller, use_departure_board, request,
                   calls, outcome, clock_read, before, ha_state, writers>>

\* lines 257-273, 278 and 285: the rest of update() once the call is over
update_finish ==
    /\ pc = "responded"
    /\ pc' = "finished"
    /\ IF ~response.ok
       THEN /\ outcome' = [kind |-> "raised", error |-> response.error]
            /\ UNCHANGED sensor_vars
       ELSE IF use_departure_board
       THEN LET transit_details == TransitDetails(response.value)
            IN  /\ _attr_device_class' = TIMESTAMP
                /\ _unit_of_measurement' = None
                /\ IF \A i \in 1..Len(transit_details) :
                          RecordBuildable(transit_details[i])
                   THEN /\ _departure_board' = DepartureBoard(transit_details)
                        /\ _last_poll' = AwareNow(now)
                        /\ outcome' = [kind |-> "returned"]
                   ELSE /\ outcome' = [kind |-> "raised", error |-> "KeyError"]
                        /\ UNCHANGED <<_departure_board, _last_poll>>
                /\ UNCHANGED <<_matrix, _resolved_origin,
                               _resolved_destination>>
       ELSE /\ _matrix' = response.value
            /\ _last_poll' = AwareNow(now)
            /\ outcome' = [kind |-> "returned"]
            /\ UNCHANGED <<_departure_board, _resolved_origin,
                           _resolved_destination, _attr_device_class,
                           _unit_of_measurement>>
    /\ UNCHANGED <<host_vars, options, now, first_update_pc,
                   first_update_runs, caller, use_departure_board, request,
                   response, calls, clock_read, before, ha_state, writers>>

(***************************************************************************)
(* Back in the caller                                                      *)
(***************************************************************************)
CycleReset ==
    /\ caller' = "none"
    /\ use_departure_board' = FALSE
    /\ request' = None
    /\ response' = None
    /\ calls' = <<>>
    /\ outcome' = NoOutcome
    /\ clock_read' = None
    /\ before' = None

\* async_write_ha_state: the host reads the state, then the attributes
async_write_ha_state(who) ==
    /\ ha_state' = native_value(_matrix, _departure_board)
    /\ _departure_board' = BoardAfterAttributes(_matrix, _departure_board)
    /\ writers' = writers \cup {who}

WritesAlways(result) == TRUE

\* lines 217-218: the write follows the await, which re-raises update()'s error
WritesAfter(result) == result.kind \in {"returned", "short_circuit"}

\* first_update() resumes after the executor job
first_update_resume ==
    /\ pc = "finished"
    /\ caller = "first_update"
    /\ pc' = "idle"
    /\ IF WritesAfter(outcome)
       THEN async_write_ha_state("first_update")
       ELSE UNCHANGED <<ha_state, writers, _departure_board>>
    /\ first_update_pc' =
           IF outcome.kind \in {"returned", "short_circuit"}
           THEN "done" ELSE "raised"
    /\ CycleReset
    /\ UNCHANGED <<host_vars, options, now, _matrix, _last_poll,
                   _resolved_origin, _resolved_destination,
                   _attr_device_class, _unit_of_measurement,
                   first_update_runs>>

\* the host's polling path: the state is written after a good update, and a
\* failed one goes to the host's update-failure path
poll_resume ==
    /\ pc = "finished"
    /\ caller = "poll"
    /\ pc' = "idle"
    /\ IF outcome.kind \in {"returned", "short_circuit"}
       THEN async_write_ha_state("poll")
       ELSE /\ ha_state' = Unavailable
            /\ UNCHANGED <<writers, _departure_board>>
    /\ CycleReset
    /\ UNCHANGED <<host_vars, options, now, _matrix, _last_poll,
                   _resolved_origin, _resolved_destination,
                   _attr_device_class, _unit_of_measurement, first_update_pc,
                   first_update_runs>>

Next ==
    \/ async_added_to_hass
    \/ HassStarting
    \/ HomeAssistantStarted
    \/ Poll
    \/ OptionsChanged
    \/ Tick
    \/ update_begin
    \/ vendor_responds
    \/ update_finish
    \/ first_update_resume
    \/ poll_resume

Spec == Init /\ [][Next]_vars

(***************************************************************************)
(* Properties                                                              *)
(***************************************************************************)
UpdateEnded == pc = "finished"

UpdateReturned == pc = "finished" /\ outcome.kind = "returned"

FirstElement == _matrix["rows"][1]["elements"][1]

StateValue == native_value(_matrix, _departure_board)

Attributes ==
    extra_state_attributes(_matrix, _departure_board, options,
                           _resolved_origin, _resolved_destination, _last_poll)

\* C1: in every reachable state at most one of the stored distance-matrix
\* result and the stored departure board is non-null.
C1_AtMostOneStored == ~(_matrix # None /\ _departure_board # None)

\* a cycle that began with a matrix reading exposed and ended with a
\* departure board stored
C1_Witness ==
    /\ UpdateReturned
    /\ use_departure_board
    /\ before.state.type = "int"
    /\ _departure_board # None

\* C2: an update in which the origin or the destination does not resolve
\* makes no vendor call and leaves everything the entity exposes (state,
\* attributes, device class, unit) as it was before the update.
C2_ShortCircuitKeepsState ==
    (UpdateEnded /\ outcome.kind = "short_circuit")
        => (View = before /\ calls = <<>>)

C4_VendorFailurePropagates ==
    /\ (UpdateEnded /\ response # None /\ ~response.ok)
           => /\ outcome = [kind |-> "raised", error |-> response.error]
              /\ calls = << IF use_departure_board
                            THEN "directions" ELSE "distance_matrix" >>
    /\ first_update_pc = "raised" => "first_update" \notin writers

\* first_update() has ended with update()'s error and nothing was written
C4_Witness ==
    /\ first_update_pc = "raised"
    /\ pc = "idle"
    /\ writers = {}
    /\ _last_poll = None

\* C5: no update runs before the host is running; an entity added earlier
\* has run no update and holds one one-shot listener; once the host runs,
\* first_update() has been entered exactly once; and first_update() writes
\* the state only after update() has returned.
C5_FirstUpdateAfterStarted ==
    /\ (pc # "idle" \/ first_update_runs > 0) => hass_state = "running"
    /\ (entity_added /\ hass_state # "running")
           => /\ first_update_pc = "listening"
              /\ listeners = 1
              /\ first_update_runs = 0
              /\ pc = "idle"
    /\ (entity_added /\ hass_state = "running")
           => first_update_runs = 1 /\ listeners = 0
    /\ "first_update" \in writers => first_update_pc = "done"
    /\ first_update_pc \in {"none", "listening", "running"}
           => ha_state = Unwritten

\* the entity was added before the host ran and waits for the started event
C5_Witness ==
    /\ entity_added
    /\ hass_state = "starting"
    /\ first_update_pc = "listening"
    /\ listeners = 1

TimeKeys == {CONF_DEPARTURE_TIME, CONF_ARRIVAL_TIME}

\* C6: a time-of-day option is sent as the next occurrence of that time of
\* day in local time: at that time of day, strictly after the current local
\* time and at most 24 hours after it.
C6_NextOccurrence ==
    \A key \in TimeKeys :
        (/\ pc = "vendor"
         /\ key \in DOMAIN options
         /\ ContainsColon(options[key].value))
            => LET local == request.options[key].value + UtcOffset
               IN  /\ local % SecondsPerDay = parse_time(options[key].value)
                   /\ local > clock_read.s
                   /\ local <= clock_read.s + SecondsPerDay

Nearest(minutes, seconds) == (60 * minutes - seconds) \in (-30)..30

\* C7: with a matrix stored the state comes from the first element of the
\* first row: the whole minutes nearest to duration_in_traffic when that is
\* present, and otherwise nearest to duration when that is present.
C7_MinutesFromFirstElement ==
    _matrix # None
        => /\ "duration_in_traffic" \in DOMAIN FirstElement
                  => /\ StateValue.type = "int"
                     /\ Nearest(StateValue.value,
                                FirstElement["duration_in_traffic"]["value"])
           /\ ("duration_in_traffic" \notin DOMAIN FirstElement
               /\ "duration" \in DOMAIN FirstElement)
                  => /\ StateValue.type = "int"
                     /\ Nearest(StateValue.value,
                                FirstElement["duration"]["value"])

\* a first element holding both durations, which round differently, behind
\* a second element
C7_Witness ==
    /\ _matrix # None
    /\ Len(_matrix["rows"]) = 2
    /\ "duration" \in DOMAIN FirstElement
    /\ "duration_in_traffic" \in DOMAIN FirstElement
    /\ StateValue = PyInt(2)

DisplayKeys == {"dep", "to", "line", "bg", "fg"}

\* C8: the exposed attributes never hold the matrix's "rows"; every entry of
\* the departures list lacks "dep_full" and keeps dep, to, line, bg and fg;
\* and the stored departure board keeps "dep_full".
C8_AttributesHideRaw ==
    /\ _departure_board # None
           => \A i \in 1..Len(_departure_board.items) :
                  "dep_full" \in DOMAIN _departure_board.items[i]
    /\ Attributes # None => "rows" \notin DOMAIN Attributes
    /\ (_matrix = None /\ _departure_board # None)
           => LET deps == Attributes[ATTR_DEPARTURES].items
                  board == _departure_board.items
              IN  /\ Len(deps) = Len(board)
                  /\ \A i \in 1..Len(deps) :
                         /\ DOMAIN deps[i] = DisplayKeys
                         /\ \A k \in DisplayKeys : deps[i][k] = board[i][k]

\* the host has read the attributes of a stored two-entry departure board
C8_Witness ==
    /\ "poll" \in writers
    /\ pc = "idle"
    /\ _departure_board # None
    /\ Len(_departure_board.items) = 2
    /\ ha_state = _departure_board.items[1]["dep_full"]

\* the alternatives of a directions result whose first step is a transit step
WithDetails(result) ==
    {i \in 1..Len(result) :
        "transit_details" \in DOMAIN result[i]["legs"][1]["steps"][1]}

\* the j-th of them in the vendor's order
NthWithDetails(result, j) ==
    CHOOSE i \in WithDetails(result) :
        Cardinality({k \in WithDetails(result) : k <= i}) = j

\* C9 as stated: a completed departure-board update stores one record for
\* each routing alternative the vendor returned.
C9_OneRecordPerAlternative ==
    (UpdateReturned /\ use_departure_board)
        => Len(_departure_board.items) = Len(response.value)

\* C9: a completed departure-board update stores one display record for each
\* routing alternative whose first leg's first step carries transit details,
\* built from those details and kept in the vendor's order; the state is the
\* full departure time of the first record, absent when there is none.
C9_RecordsFromFirstSteps ==
    (UpdateReturned /\ use_departure_board)
        => LET result == response.value
               board == _departure_board.items
           IN  /\ Len(board) = Cardinality(WithDetails(result))
               /\ \A j \in 1..Len(board) :
                      LET i == NthWithDetails(result, j)
                          td == result[i]["legs"][1]["steps"][1]["transit_details"]
                      IN  /\ board[j]["dep_full"].s
                                 = td["departure_time"]["value"] + UtcOffset
                          /\ board[j]["dep"] = strftime_HM(board[j]["dep_full"])
                          /\ board[j]["to"] = td["headsign"]
                          /\ board[j]["line"] = td["line"]["short_name"]
                          /\ board[j]["bg"] = td["line"]["color"]
                          /\ board[j]["fg"] = td["line"]["text_color"]
               /\ StateValue = IF Len(board) = 0 THEN None
                               ELSE board[1]["dep_full"]

\* two alternatives returned, the first starting on foot: one record stored
C9_Witness ==
    /\ UpdateReturned
    /\ use_departure_board
    /\ Len(response.value) = 2
    /\ "transit_details" \notin DOMAIN response.value[1]["legs"][1]["steps"][1]
    /\ Len(_departure_board.items) = 1

\* C10: whenever a matrix is stored the device class is DURATION and the
\* unit minutes; whenever a departure board is stored the device class is
\* TIMESTAMP and the unit absent.
C10_ClassMatchesReading ==
    /\ _matrix # None
           => _attr_device_class = DURATION /\ _unit_of_measurement = TIME_MINUTES
    /\ _departure_board # None
           => _attr_device_class = TIMESTAMP /\ _unit_of_measurement = None

\* a cycle that began with a departure board exposed and ended with a
\* matrix stored
C10_Witness ==
    /\ UpdateReturned
    /\ before.device_class = TIMESTAMP
    /\ before.state.type = "datetime"
    /\ _matrix # None

====
